---- MODULE Spec2Model ----
(***************************************************************************)
(* Model of panini's page renderer, render(file, enc, cb), the through2    *)
(* transform of lib/render.js.  One call of render is one action: the try  *)
(* block, the catch block and the finally block are evaluated in order on  *)
(* a frame record that carries the locals of the call.                     *)
(*                                                                         *)
(* Text is modelled as a sequence of chunks (strings), so concatenation is *)
(* \o and "contains" is "is a contiguous subsequence of".  A data object   *)
(* (front matter, global data, page data) is a tree, written as the set of *)
(* its nodes [p |-> path from the root, v |-> scalar or the mapping mark]. *)
(***************************************************************************)
EXTENDS Integers, Sequences, FiniteSets, TLC

VARIABLES
  partials,     \* this.Handlebars.partials: name -> registered template
  helpers,      \* this.Handlebars.helpers: page name bound to ifpage/unlesspage
  data,         \* this.data: global data
  layouts,      \* this.layouts: layout name -> compiled layout
  pageLayouts,  \* this.options.pageLayouts: folder -> layout name
  file,         \* the vinyl file handed to render (path, source, data)
  contents,     \* file.contents after the last call
  layout,       \* local `layout` of the last call
  pageData,     \* local `pageData` of the last call
  pageBody,     \* page.body of the last call, as handed to Handlebars.compile
  invocations,  \* calls of layoutTemplate(...) made by the last call
  emitted,      \* contents of the file at each cb(null, file) of the last call
  caught,       \* the `e` of the catch block of the last call, if it ran
  raised,       \* error thrown to the caller of the last call
  entry,        \* this.Handlebars.partials as the last call found it
  n             \* number of calls of render made so far

vars == <<partials, helpers, data, layouts, pageLayouts, file, contents,
          layout, pageData, pageBody, invocations, emitted, caught, raised, entry,
          n>>

-----------------------------------------------------------------------------
(* Bounds *)

MaxDocs == 2

\* segments a generated page body is assembled from
MaxSegs == 3

-----------------------------------------------------------------------------
(* Text *)

\* haystack.indexOf(needle) !== -1 on chunked text
Contains(haystack, needle) ==
  \E i \in 0..(Len(haystack) - Len(needle)) :
    SubSeq(haystack, i + 1, i + Len(needle)) = needle

\* the message of new Error(msg) as '' + e prints it
ErrText(msg) == <<"Error: ">> \o msg

-----------------------------------------------------------------------------
(* Data objects *)

MAP == <<"{}">>

Sc(s) == {[p |-> <<>>, v |-> s]}

Undefined == {}

IsMapping(val) == [p |-> <<>>, v |-> MAP] \in val

RootVal(val) == (CHOOSE nd \in val : nd.p = <<>>).v

Keys(val) == {nd.p[1] : nd \in {m \in val : Len(m.p) = 1}}

Get(val, k) ==
  {[p |-> Tail(nd.p), v |-> nd.v] :
     nd \in {m \in val : Len(m.p) >= 1 /\ m.p[1] = k}}

Under(k, val) == {[p |-> <<k>> \o nd.p, v |-> nd.v] : nd \in val}

Obj(f) == {[p |-> <<>>, v |-> MAP]} \cup UNION {Under(k, f[k]) : k \in DOMAIN f}

EmptyObj == {[p |-> <<>>, v |-> MAP]}

\* JavaScript falsy scalars: '', false, null, 0
Falsy == {<<>>, <<"#false">>, <<"#null">>, <<"#0">>}

Truthy(val) == val # Undefined /\ (IsMapping(val) \/ RootVal(val) \notin Falsy)

\* deepmerge(target, source): keys of source win; a mapping met by a mapping
\* is merged key by key, anything else is replaced by the source's value
RECURSIVE extend(_, _)
extend(target, source) ==
  LET tk == IF IsMapping(target) THEN Keys(target) ELSE {}
      sk == Keys(source)
      val(k) ==
        IF k \notin sk THEN Get(target, k)
        ELSE IF ~IsMapping(Get(source, k)) \/ k \notin tk
                 \/ ~Truthy(Get(target, k))
               THEN Get(source, k)
               ELSE extend(Get(target, k), Get(source, k))
  IN  Obj([k \in tk \cup sk |-> val(k)])

-----------------------------------------------------------------------------
(* Paths: a path is a sequence of segments, a segment a sequence of the    *)
(* parts between its dots ("index.hbs" is <<"index", "hbs">>).             *)

Root == << <<"src">>, <<"pages">> >>

dirname(path) == SubSeq(path, 1, Len(path) - 1)

RECURSIVE CommonLen(_, _)
CommonLen(a, b) ==
  IF a = <<>> \/ b = <<>> \/ Head(a) # Head(b) THEN 0
  ELSE 1 + CommonLen(Tail(a), Tail(b))

\* path.relative(from, to)
relative(from, to) ==
  LET c == CommonLen(from, to)
  IN  [i \in 1..(Len(from) - c) |-> <<"..">>] \o SubSeq(to, c + 1, Len(to))

\* path.extname(path): <<>> is '', <<x>> is '.x'
extname(path) ==
  LET seg == path[Len(path)]
  IN  IF Len(seg) <= 1 \/ (Len(seg) = 2 /\ seg[1] = "") THEN <<>>
      ELSE <<seg[Len(seg)]>>

\* path.basename(path, ext)
basename(path, ext) ==
  LET seg == path[Len(path)]
  IN  IF ext # <<>> /\ Len(seg) >= 2 /\ seg[Len(seg)] = ext[1]
        THEN SubSeq(seg, 1, Len(seg) - 1)
        ELSE seg

\* processRoot(page, root): one '../' per folder between the page and root
processRoot(path, root) ==
  [i \in 1..Len(relative(root, dirname(path))) |-> "../"]

\* String(x) as used for a property key and in a message
ToKey(val) == IF IsMapping(val) THEN <<"[object Object]">> ELSE RootVal(val)

-----------------------------------------------------------------------------
(* Layout resolution and page data, render lines 25-30 and 80-93 *)

\* faulty variant: the folder mapping is consulted before the front matter
DetermineLayout_FolderFirst(attributes, pl, path) ==
  LET basePath == relative(Root, dirname(path))
  IN  IF basePath \in DOMAIN pl /\ Truthy(Sc(pl[basePath])) THEN Sc(pl[basePath])
      ELSE IF Truthy(Get(attributes, "layout")) THEN Get(attributes, "layout")
      ELSE Sc(<<"default">>)

\* faulty variant: the folder mapping is not consulted at all
DetermineLayout_NoFolder(attributes, pl, path) ==
  IF Truthy(Get(attributes, "layout")) THEN Get(attributes, "layout")
  ELSE Sc(<<"default">>)

\* page.attributes.layout || (pageLayouts && pageLayouts[basePath]) || 'default'
DetermineLayout(attributes, pl, path) ==
  LET basePath == relative(Root, dirname(path))
  IN  IF Truthy(Get(attributes, "layout")) THEN Get(attributes, "layout")
      ELSE IF basePath \in DOMAIN pl /\ Truthy(Sc(pl[basePath]))
        THEN Sc(pl[basePath])
        ELSE Sc(<<"default">>)

Constants(path, lay) ==
  Obj([k \in {"page", "layout", "root"} |->
         CASE k = "page"   -> Sc(basename(path, extname(path)))
           [] k = "layout" -> lay
           [] k = "root"   -> Sc(processRoot(path, Root))])

\* faulty variant: the constants are merged before the front matter
BuildPageData_ConstantsFirst(globals, fileData, attributes, path, lay) ==
  LET d1 == extend(EmptyObj, globals)
      d2 == IF Truthy(fileData) THEN extend(d1, fileData) ELSE d1
      d3 == extend(d2, Constants(path, lay))
  IN  extend(d3, attributes)

\* faulty variant: the data of stream plugins is merged after the front matter
BuildPageData_UpstreamLast(globals, fileData, attributes, path, lay) ==
  LET d1 == extend(EmptyObj, globals)
      d2 == extend(d1, attributes)
      d3 == IF Truthy(fileData) THEN extend(d2, fileData) ELSE d2
  IN  extend(d3, Constants(path, lay))

\* lines 80-93: globals, then file.data if any, then front matter, then constants
BuildPageData(globals, fileData, attributes, path, lay) ==
  LET d1 == extend(EmptyObj, globals)
      d2 == IF Truthy(fileData) THEN extend(d1, fileData) ELSE d1
      d3 == extend(d2, attributes)
  IN  extend(d3, Constants(path, lay))

-----------------------------------------------------------------------------
(* Page bodies: a body is a sequence of tokens.  "open" is an inline        *)
(* opening tag {{#*inline <ql>name<qr>}} (lead: written {{~#*inline),       *)
(* "close" is {{/inline}} (lead: {{~/inline}}, trail: {{/inline~}}),        *)
(* "copen"/"cclose" are {{!-- and --}}, "ws" is a run of whitespace.        *)
(* A partial name is a sequence of chunks: layout-nav is                    *)
(* <<"layout-", "nav">>.                                                    *)

Tok(k, lead, trail, ql, qr, name) ==
  [k |-> k, lead |-> lead, trail |-> trail, ql |-> ql, qr |-> qr, name |-> name]

Text(t) == Tok("text", FALSE, FALSE, "", "", <<t>>)
Ws == Tok("ws", FALSE, FALSE, "", "", <<>>)
COpen == Tok("copen", FALSE, FALSE, "", "", <<>>)
CClose == Tok("cclose", FALSE, FALSE, "", "", <<>>)
Open(lead, ql, qr, name) == Tok("open", lead, FALSE, ql, qr, name)
Close(lead, trail) == Tok("close", lead, trail, "", "", <<>>)

\* partial.indexOf('layout-') === 0
IsLayoutPartial(name) == Len(name) >= 1 /\ name[1] = "layout-"

\* faulty variant: the closing quote is not compared with the opening one
OpenMatches_AnyQuotes(t) ==
  t.k = "open" /\ ~t.trail /\ IsLayoutPartial(t.name)

\* {{\~{0,1}#\*inline[\s]+(?<quote>["']{1})(?<name>layout-[0-9a-zA-Z_-]*)\k<quote>\s*}}
OpenMatches(t) ==
  t.k = "open" /\ ~t.trail /\ t.ql = t.qr /\ IsLayoutPartial(t.name)

\* faulty variant: the ~ is accepted in front of /inline, {{~/inline}}
CloseMatches_LeadingTrim(t) == t.k = "close" /\ ~t.trail

\* {{\/inline\s*\~{0,1}}}
CloseMatches(t) == t.k = "close" /\ ~t.lead

\* page.body.indexOf('{{#*inline') !== -1 || page.body.indexOf('{{~#*inline') !== -1
HasInlineMarker(body) == \E i \in 1..Len(body) : body[i].k = "open"

Least(S) == CHOOSE x \in S : \A y \in S : x <= y

\* page.body.replace(commentRegex, ''), commentRegex = /{{!--[.\s\S]*?--}}/gm
RECURSIVE StripFrom(_, _)
StripFrom(s, i) ==
  IF i > Len(s) THEN <<>>
  ELSE LET ends == {j \in (i + 1)..Len(s) : s[j].k = "cclose"}
       IN  IF s[i].k = "copen" /\ ends # {}
             THEN StripFrom(s, Least(ends) + 1)
             ELSE <<s[i]>> \o StripFrom(s, i + 1)

StripComments(body) == StripFrom(body, 1)

RECURSIVE WsRun(_, _)
WsRun(s, i) == IF i <= Len(s) /\ s[i].k = "ws" THEN 1 + WsRun(s, i + 1) ELSE 0

NoMatch == [found |-> FALSE, start |-> 0, stop |-> 0]

\* inlinePartialRegex.exec(s) with lastIndex = from - 1
Exec(s, from) ==
  LET starts == {i \in from..Len(s) :
                   OpenMatches(s[i])
                   /\ \E j \in (i + 1)..Len(s) : CloseMatches(s[j])}
  IN  IF starts = {} THEN NoMatch
      ELSE LET i == Least(starts)
               j == Least({c \in (i + 1)..Len(s) : CloseMatches(s[c])})
           IN  [found |-> TRUE, start |-> i, stop |-> j + WsRun(s, j + 1)]

\* text.replace(pat, ''): the first occurrence of pat is removed
ReplaceFirst(text, pat) ==
  LET at == {i \in 1..(Len(text) - Len(pat) + 1) :
               SubSeq(text, i, i + Len(pat) - 1) = pat}
  IN  IF at = {} THEN text
      ELSE SubSeq(text, 1, Least(at) - 1)
           \o SubSeq(text, Least(at) + Len(pat), Len(text))

-----------------------------------------------------------------------------
(* The Handlebars registry *)

NoTpl == [kind |-> "none", doc |-> 0, fails |-> FALSE]

\* the string registered as `body` by the catch block
ErrorFragment == [kind |-> "error", doc |-> 0, fails |-> FALSE]

BodyName == <<"body">>

\* Handlebars.registerPartial(name, tpl)
registerPartial(parts, name, tpl) ==
  [x \in DOMAIN parts \cup {name} |-> IF x = name THEN tpl ELSE parts[x]]

NoLayout == [name |-> <<>>, bad |-> "undefined"]

\* this.layouts[layout]
LookupLayout(lays, lay) ==
  IF ToKey(lay) \in DOMAIN lays THEN lays[ToKey(lay)] ELSE NoLayout

NoErr == <<>>

LayoutErr(tpl) == <<"Missing helper in layout ">> \o tpl.name

BodyErr == <<"The page body could not be rendered">>

\* what evaluating a compiled layout throws, NoErr when it returns: a layout
\* marked "pre" or "post" fails before or after it has embedded {{> body}}
LayoutThrows(tpl, parts) ==
  IF tpl.bad = "pre" THEN LayoutErr(tpl)
  ELSE IF BodyName \notin DOMAIN parts
    THEN <<"The partial body could not be found">>
  ELSE IF parts[BodyName].fails THEN BodyErr
  ELSE IF tpl.bad = "post" THEN LayoutErr(tpl)
  ELSE NoErr

Source == [kind |-> "source", layout |-> <<>>, body |-> NoTpl,
           ctx |-> Undefined, text |-> <<>>]

\* the string a compiled layout returns
LayoutOutput(tpl, ctx, parts) ==
  [kind |-> "layout", layout |-> tpl.name, body |-> parts[BodyName],
   ctx |-> ctx, text |-> <<>>]

\* '<!DOCTYPE html>...<pre>' + e + '</pre></body></html>'
RawPage(e) ==
  [kind |-> "raw", layout |-> <<>>, body |-> NoTpl, ctx |-> Undefined,
   text |-> <<"<!DOCTYPE html><html><head><title>Panini error</title></head><body><pre>">>
            \o ErrText(e) \o <<"</pre></body></html>">>]

Invocation(tpl, ctx, parts, hlp, tier, err) ==
  [tpl |-> tpl, ctx |-> ctx, partials |-> parts, helpers |-> hlp,
   tier |-> tier, err |-> err]

-----------------------------------------------------------------------------
(* render(file, enc, cb).  A frame holds the locals of one call; a stage    *)
(* that runs after a throw leaves the frame as it is.  f.failAt names the   *)
(* step at which a library call throws for this document ("none": nowhere). *)

Frame(parts, hlp) ==
  [thrown |-> FALSE, e |-> NoErr,
   attributes |-> Undefined, body |-> <<>>,
   layout |-> Undefined, layoutTemplate |-> NoLayout,
   pageTemplate |-> NoTpl, pageData |-> Undefined,
   partials |-> parts, helpers |-> hlp,
   contents |-> Source, invocations |-> <<>>,
   emitted |-> <<>>, raisedMsg |-> NoErr, raises |-> FALSE]

Throw(fr, msg) == [fr EXCEPT !.thrown = TRUE, !.e = msg]

\* line 21: var page = fm(stripBom(file.contents.toString()))
ParseFrontMatter(fr, f) ==
  IF f.failAt = "fm" THEN Throw(fr, <<"YAMLException: bad front matter">>)
  ELSE [fr EXCEPT !.attributes = f.attributes, !.body = f.body]

\* faulty variant: a missing named layout is replaced by the default layout
ResolveLayout_FallsBackToDefault(fr, f, lays, pl) ==
  IF fr.thrown THEN fr
  ELSE LET lay == DetermineLayout(fr.attributes, pl, f.path)
           tpl == LookupLayout(lays, lay)
           dft == LookupLayout(lays, Sc(<<"default">>))
           fr1 == [fr EXCEPT !.layout = lay,
                             !.layoutTemplate = IF tpl # NoLayout THEN tpl ELSE dft]
       IN  IF tpl # NoLayout \/ dft # NoLayout THEN fr1
           ELSE Throw(fr1, <<"Panini error: you must have a layout named \"default\".">>)

\* lines 25-39: resolve the layout, look it up, throw if there is none
ResolveLayout(fr, f, lays, pl) ==
  IF fr.thrown THEN fr
  ELSE LET lay == DetermineLayout(fr.attributes, pl, f.path)
           tpl == LookupLayout(lays, lay)
           fr1 == [fr EXCEPT !.layout = lay, !.layoutTemplate = tpl]
       IN  IF tpl # NoLayout THEN fr1
           ELSE IF lay = Sc(<<"default">>)
             THEN Throw(fr1, <<"Panini error: you must have a layout named \"default\".">>)
             ELSE Throw(fr1, <<"Panini error: no layout named \"">> \o ToKey(lay)
                               \o <<"\" exists.">>)

\* faulty variant: the filter returns partial.indexOf('layout-'), which is
\* truthy exactly when the name does not start with layout-
PurgeInlinePartials_IndexTruthy(fr) ==
  IF fr.thrown THEN fr
  ELSE [fr EXCEPT !.partials =
          [x \in {y \in DOMAIN fr.partials : IsLayoutPartial(y)} |-> fr.partials[x]]]

\* faulty variant: the deletion sits inside the `if` of line 50
PurgeInlinePartials_OnlyWithMarker(fr) ==
  IF fr.thrown \/ ~HasInlineMarker(fr.body) THEN fr
  ELSE [fr EXCEPT !.partials =
          [x \in {y \in DOMAIN fr.partials : ~IsLayoutPartial(y)} |-> fr.partials[x]]]

\* faulty variant: nothing is deleted
PurgeInlinePartials_None(fr) == fr

\* lines 43-48: delete every partial whose name starts with layout-
PurgeInlinePartials(fr) ==
  IF fr.thrown THEN fr
  ELSE [fr EXCEPT !.partials =
          [x \in {y \in DOMAIN fr.partials : ~IsLayoutPartial(y)} |-> fr.partials[x]]]

\* lines 60-70: the while loop over inlinePartialRegex.exec(stripped)
RECURSIVE ExtractLoop(_, _, _, _, _)
ExtractLoop(fr, stripped, from, bodyText, doc) ==
  LET m == Exec(stripped, from)
  IN  IF ~m.found THEN [fr EXCEPT !.body = bodyText]
      ELSE LET tpl == [kind |-> "inline", doc |-> doc, fails |-> FALSE]
               fr1 == [fr EXCEPT !.partials =
                         registerPartial(fr.partials, stripped[m.start].name, tpl)]
           IN  ExtractLoop(fr1, stripped, m.stop + 1,
                           ReplaceFirst(bodyText, SubSeq(stripped, m.start, m.stop)),
                           doc)

\* lines 50-74: register the page's inline layout- partials and strip them
ExtractInlinePartials(fr, f, doc) ==
  IF fr.thrown \/ ~HasInlineMarker(fr.body) THEN fr
  ELSE IF f.failAt = "extract" /\ Exec(StripComments(fr.body), 1).found
    THEN Throw(fr, <<"Error while registering an inline partial">>)
    ELSE ExtractLoop(fr, StripComments(fr.body), 1, fr.body, doc)

\* line 77: var pageTemplate = this.Handlebars.compile(page.body + '\n')
CompilePage(fr, f, doc) ==
  IF fr.thrown THEN fr
  ELSE IF f.failAt = "compile" THEN Throw(fr, <<"Parse error in the page body">>)
  ELSE [fr EXCEPT !.pageTemplate =
          [kind |-> "page", doc |-> doc, fails |-> (f.failAt = "render")]]

\* lines 80-93: pageData = globals <- file.data <- front matter <- constants
ComposeData(fr, f, globals) ==
  IF fr.thrown THEN fr
  ELSE IF f.failAt = "data" THEN Throw(fr, <<"RangeError while merging page data">>)
  ELSE [fr EXCEPT !.pageData =
          BuildPageData(globals, f.data, fr.attributes, f.path, fr.layout)]

\* faulty variant: the helpers are registered by the first document only
RegisterHelpers_Once(fr) ==
  IF fr.thrown \/ fr.helpers.ifpage # Undefined THEN fr
  ELSE [fr EXCEPT !.helpers =
          [ifpage |-> Get(fr.pageData, "page"),
           unlesspage |-> Get(fr.pageData, "page")]]

\* lines 96-97: registerHelper('ifpage', ...(pageData.page)), same for unlesspage
RegisterHelpers(fr) ==
  IF fr.thrown THEN fr
  ELSE [fr EXCEPT !.helpers =
          [ifpage |-> Get(fr.pageData, "page"),
           unlesspage |-> Get(fr.pageData, "page")]]

\* lines 100-101: register `body`, render the layout into file.contents
RenderLayout(fr) ==
  IF fr.thrown THEN fr
  ELSE LET parts == registerPartial(fr.partials, BodyName, fr.pageTemplate)
           err == LayoutThrows(fr.layoutTemplate, parts)
           inv == Invocation(fr.layoutTemplate, fr.pageData, parts, fr.helpers,
                             "primary", err)
           fr1 == [fr EXCEPT !.partials = parts,
                             !.invocations = Append(fr.invocations, inv)]
       IN  IF err # NoErr THEN Throw(fr1, err)
           ELSE [fr1 EXCEPT !.contents =
                   LayoutOutput(fr.layoutTemplate, fr.pageData, parts)]

\* lines 19-102: the try block
Try(fr, f, globals, lays, pl, doc) ==
  RenderLayout(
    RegisterHelpers(
      ComposeData(
        CompilePage(
          ExtractInlinePartials(
            PurgeInlinePartials(
              ResolveLayout(ParseFrontMatter(fr, f), f, lays, pl)),
            f, doc),
          f, doc),
        f, globals)))

\* 'Panini: rendering error occured.\n' + e
Wrapped(e) == <<"Panini: rendering error occured.\n">> \o ErrText(e)

\* faulty variant: the catch block re-invokes the layout without registering
\* the error fragment as `body`
Catch_KeepsBody(fr) ==
  IF ~fr.thrown THEN fr
  ELSE IF fr.layoutTemplate # NoLayout
    THEN LET parts == fr.partials
             ctx == Obj([k \in {"error"} |-> Sc(ErrText(fr.e))])
             err == LayoutThrows(fr.layoutTemplate, parts)
             inv == Invocation(fr.layoutTemplate, ctx, parts, fr.helpers,
                               "tier1", err)
             fr1 == [fr EXCEPT !.invocations = Append(fr.invocations, inv),
                               !.raises = TRUE]
         IN  IF err # NoErr THEN [fr1 EXCEPT !.raisedMsg = err]
             ELSE [fr1 EXCEPT !.contents = LayoutOutput(fr.layoutTemplate, ctx, parts),
                              !.raisedMsg = Wrapped(fr.e)]
    ELSE [fr EXCEPT !.contents = RawPage(fr.e),
                    !.raises = TRUE,
                    !.raisedMsg = Wrapped(fr.e)]

\* lines 103-116: the catch block
Catch(fr) ==
  IF ~fr.thrown THEN fr
  ELSE IF fr.layoutTemplate # NoLayout
    THEN LET parts == registerPartial(fr.partials, BodyName, ErrorFragment)
             ctx == Obj([k \in {"error"} |-> Sc(ErrText(fr.e))])
             err == LayoutThrows(fr.layoutTemplate, parts)
             inv == Invocation(fr.layoutTemplate, ctx, parts, fr.helpers,
                               "tier1", err)
             fr1 == [fr EXCEPT !.partials = parts,
                               !.invocations = Append(fr.invocations, inv),
                               !.raises = TRUE]
         IN  IF err # NoErr THEN [fr1 EXCEPT !.raisedMsg = err]
             ELSE [fr1 EXCEPT !.contents = LayoutOutput(fr.layoutTemplate, ctx, parts),
                              !.raisedMsg = Wrapped(fr.e)]
    ELSE [fr EXCEPT !.contents = RawPage(fr.e),
                    !.raises = TRUE,
                    !.raisedMsg = Wrapped(fr.e)]

\* faulty variant: cb is called as the last statement of the try block
Finally_InTryOnly(fr) ==
  IF fr.thrown THEN fr ELSE [fr EXCEPT !.emitted = Append(fr.emitted, fr.contents)]

\* lines 117-120: cb(null, file)
Finally(fr) == [fr EXCEPT !.emitted = Append(fr.emitted, fr.contents)]

render(fr, f, globals, lays, pl, doc) ==
  Finally(Catch(Try(fr, f, globals, lays, pl, doc)))

-----------------------------------------------------------------------------
(* The pipeline's setup and the documents fed to it *)

Tpl(name, bad) == [name |-> name, bad |-> bad]

Lays(S) == [nm \in {t.name : t \in S} |-> CHOOSE t \in S : t.name = nm]

\* with a default layout; `broken` uses a helper nobody registered, after {{> body}}
LayoutsWithDefault ==
  Lays({Tpl(<<"default">>, "no"), Tpl(<<"post">>, "no"), Tpl(<<"broken">>, "post")})

\* without a default layout; `broken` fails before {{> body}}
LayoutsNoDefault ==
  Lays({Tpl(<<"post">>, "no"), Tpl(<<"broken">>, "pre")})

AboutFolder == << <<"about">> >>

NoPageLayouts == <<>>

PageLayoutsAbout == [d \in {AboutFolder} |-> <<"post">>]

PageLayoutsRoot == [d \in {<<>>, AboutFolder} |->
                      IF d = <<>> THEN <<"post">> ELSE <<"default">>]

\* partials loaded from the partials folder before any page is rendered
GlobalPartials ==
  [x \in {<<"header">>, <<"layout-", "legacy">>} |->
     [kind |-> "global", doc |-> 0, fails |-> FALSE]]

NoHelpers == [ifpage |-> Undefined, unlesspage |-> Undefined]

IndexPath == Root \o << <<"index", "html">> >>
TeamPath == Root \o << <<"about">>, <<"team", "hbs">> >>

LayoutAttr(v) == Obj([k \in {"layout"} |-> v])

NavName == <<"layout-", "nav">>
SideName == <<"layout-", "side">>

BodyPlain == <<Text("p")>>
BodyNav == <<Open(FALSE, "\"", "\"", NavName), Text("n"), Close(FALSE, FALSE), Ws, Text("p")>>
BodyCommented ==
  <<COpen, Open(FALSE, "'", "'", SideName), Text("s"), Close(FALSE, FALSE), CClose,
    Open(TRUE, "'", "'", SideName), Text("s"), Close(FALSE, TRUE), Text("p")>>

FailAts == {"none", "fm", "extract", "compile", "data", "render"}

Files ==
  [path : {IndexPath, TeamPath},
   attributes : {EmptyObj, LayoutAttr(Sc(<<"post">>)), LayoutAttr(Sc(<<"ghost">>)),
                 LayoutAttr(Sc(<<"broken">>))},
   data : {Undefined},
   body : {BodyPlain, BodyNav, BodyCommented},
   failAt : FailAts]

NoFile == [path |-> <<>>, attributes |-> Undefined, data |-> Undefined,
           body |-> <<>>, failAt |-> "none"]

SiteData == Obj([k \in {"site"} |-> Sc(<<"x">>)])

InitCall ==
  /\ partials = GlobalPartials
  /\ helpers = NoHelpers
  /\ contents = Source
  /\ layout = Undefined
  /\ pageData = Undefined
  /\ pageBody = <<>>
  /\ invocations = <<>>
  /\ emitted = <<>>
  /\ caught = [thrown |-> FALSE, msg |-> NoErr]
  /\ raised = [thrown |-> FALSE, msg |-> NoErr]
  /\ entry = GlobalPartials
  /\ n = 0

Init ==
  /\ InitCall
  /\ data = SiteData
  /\ layouts \in {LayoutsWithDefault, LayoutsNoDefault}
  /\ pageLayouts \in {NoPageLayouts, PageLayoutsAbout}
  /\ file = NoFile

\* one call render(f, enc, cb) of the transform stream
Render(f) ==
  /\ n < MaxDocs
  /\ \E fr \in {render(Frame(partials, helpers), f, data, layouts, pageLayouts, n + 1)} :
         /\ partials' = fr.partials
         /\ helpers' = fr.helpers
         /\ contents' = fr.contents
         /\ layout' = fr.layout
         /\ pageData' = fr.pageData
         /\ pageBody' = fr.body
         /\ invocations' = fr.invocations
         /\ emitted' = fr.emitted
         /\ caught' = [thrown |-> fr.thrown, msg |-> fr.e]
         /\ raised' = [thrown |-> fr.raises, msg |-> fr.raisedMsg]
  /\ file' = f
  /\ entry' = partials
  /\ n' = n + 1
  /\ UNCHANGED <<data, layouts, pageLayouts>>

Next == \E f \in Files : Render(f)

Spec == Init /\ [][Next]_vars

-----------------------------------------------------------------------------
(* Layout resolution and data composition over many data sets: the document *)
(* waiting in `file` is drawn with its front matter and upstream data, the  *)
(* global data and the folder mapping are drawn with it, and render is      *)
(* called on it once.                                                       *)

Mk(pairs) == EmptyObj \cup UNION {Under(kv[1], kv[2]) : kv \in pairs}

One(k, v) == Mk({<<k, v>>})

GlobalDatas ==
  {Mk({<<"k", kv>>} \cup ov) :
     kv \in {Undefined, Sc(<<"a">>), One("x", Sc(<<"1">>)),
             One("x", One("z", Sc(<<"1">>)))},
     ov \in {{},
             {<<"page", One("x", Sc(<<"1">>))>>, <<"layout", One("x", Sc(<<"1">>))>>,
              <<"root", Sc(<<"r">>)>>},
             {<<"page", Sc(<<"g">>)>>, <<"root", One("x", Sc(<<"1">>))>>}}}

UpstreamDatas ==
  {Undefined}
  \cup {Mk({<<"k", kv>>}) :
          kv \in {Undefined, Sc(<<"b">>), One("y", Sc(<<"2">>)), One("x", Sc(<<"9">>))}}
  \cup {Mk({<<"page", Sc(<<"u">>)>>, <<"layout", Sc(<<"post">>)>>})}

FrontMatters ==
  {Mk({<<"k", kv>>, <<"layout", lv>>} \cup ov) :
     kv \in {Undefined, Sc(<<"a">>), One("y", Sc(<<"2">>)),
             One("x", One("w", Sc(<<"2">>)))},
     lv \in {Undefined, Sc(<<"post">>), Sc(<<"ghost">>), Sc(<<>>), Sc(<<"#false">>),
             One("x", Sc(<<"1">>))},
     ov \in {{}, {<<"page", One("x", Sc(<<"1">>))>>, <<"root", Sc(<<"q">>)>>}}}

DataFiles ==
  [path : {IndexPath, TeamPath},
   attributes : FrontMatters,
   data : UpstreamDatas,
   body : {BodyPlain},
   failAt : {"none"}]

InitData ==
  /\ InitCall
  /\ data \in GlobalDatas
  /\ layouts = LayoutsWithDefault
  /\ pageLayouts \in {NoPageLayouts, PageLayoutsAbout, PageLayoutsRoot}
  /\ file \in DataFiles

RenderPending == n = 0 /\ Render(file)

NextData == RenderPending

SpecData == InitData /\ [][NextData]_vars

-----------------------------------------------------------------------------
(* Properties of one call, read off the state the call leaves *)

Called == n > 0

\* the try block threw, so the catch block ran
Failed == Called /\ caught.thrown

\* a layout template was resolved for the document of the last call
LayoutAvailable == layout # Undefined /\ ToKey(layout) \in DOMAIN layouts

IsRendered(c) == c.kind = "layout" /\ c.body.kind = "page"

IsTier1(c) == c.kind = "layout" /\ c.body = ErrorFragment

IsTier2(c) == c.kind = "raw"

ErrorOnly(ctx, e) == Keys(ctx) = {"error"} /\ Get(ctx, "error") = Sc(ErrText(e))

\* C1: the document handed downstream always has its content replaced: by
\* the layout's output when the try block succeeds, by a Tier 1 or Tier 2
\* error page when it fails, at whatever step.
C1_ContentAlwaysReplaced ==
  Called =>
    /\ emitted # <<>>
    /\ \A i \in DOMAIN emitted :
         IF caught.thrown THEN IsTier1(emitted[i]) \/ IsTier2(emitted[i])
         ELSE IsRendered(emitted[i])

\* C2: cb(null, file) is invoked exactly once per call of render, on every
\* path, a failure inside the fallback included.
C2_EmittedOnce == Called => Len(emitted) = 1

\* the fallback itself failed: the layout threw again when re-invoked
C2_Witness ==
  /\ Failed
  /\ Len(invocations) = 2
  /\ invocations[2].tier = "tier1"
  /\ invocations[2].err # NoErr
  /\ Len(emitted) = 1

\* C3: when the catch block is entered an error is raised to the caller and
\* its message contains the text of the error that was caught; when the try
\* block succeeds no error is raised.
C3_RaisedCarriesOriginal ==
  Called =>
    IF caught.thrown
      THEN raised.thrown /\ Contains(raised.msg, caught.msg)
      ELSE ~raised.thrown

\* C4: a failure after the layout template was looked up gives the Tier 1
\* output: body is re-registered as the error fragment, the resolved layout
\* is re-invoked with a context holding only the error, and its result is the
\* document's content; the raw Tier 2 document is not produced.
C4_Tier1AfterLookup ==
  (Failed /\ LayoutAvailable) =>
    /\ partials[BodyName] = ErrorFragment
    /\ \E i \in DOMAIN invocations :
         /\ invocations[i].tier = "tier1"
         /\ invocations[i].tpl = layouts[ToKey(layout)]
         /\ ErrorOnly(invocations[i].ctx, caught.msg)
    /\ IsTier1(contents)
    /\ contents.layout = ToKey(layout)
    /\ ErrorOnly(contents.ctx, caught.msg)

SameBodyEntry(p, q) ==
  /\ (BodyName \in DOMAIN p) = (BodyName \in DOMAIN q)
  /\ BodyName \in DOMAIN p => p[BodyName] = q[BodyName]

FrontMatterFailed == Called /\ file.failAt = "fm"

DefaultMissing ==
  Called /\ layout = Sc(<<"default">>) /\ <<"default">> \notin DOMAIN layouts

NamedMissing ==
  Called /\ layout # Undefined /\ layout # Sc(<<"default">>)
         /\ ToKey(layout) \notin DOMAIN layouts

\* C5: when no layout template is available at the failure (front matter
\* does not parse, `default` is resolved and missing, another name is
\* resolved and missing) the output is the raw Tier 2 document: no layout is
\* invoked and body is not re-registered.
C5_Tier2WithoutLayout ==
  (FrontMatterFailed \/ DefaultMissing \/ NamedMissing) =>
    /\ caught.thrown
    /\ IsTier2(contents)
    /\ Contains(contents.text, caught.msg)
    /\ emitted = <<contents>>
    /\ invocations = <<>>
    /\ SameBodyEntry(partials, entry)

\* a second document finds no default layout while an earlier one left body
C5_Witness ==
  /\ DefaultMissing
  /\ IsTier2(contents)
  /\ BodyName \in DOMAIN entry

-----------------------------------------------------------------------------
(* Layout resolution, checked under SpecData *)

\* the folder of a document below the site root, read off its path
Folder(f) == SubSeq(f.path, Len(Root) + 1, Len(f.path) - 1)

FrontMatterLayout == Get(file.attributes, "layout")

\* C6 as claimed: a front-matter layout key, whatever its value, is the
\* resolved layout.
C6_AnyFrontMatterLayoutWins ==
  (Called /\ FrontMatterLayout # Undefined) => layout = FrontMatterLayout

\* C6 as amended: a front-matter layout whose value is not one of '', false,
\* null, 0 is the resolved layout, whatever the folder mapping holds.
C6_TruthyFrontMatterLayoutWins ==
  (/\ Called
   /\ FrontMatterLayout # Undefined
   /\ \/ IsMapping(FrontMatterLayout)
      \/ RootVal(FrontMatterLayout) \notin {<<>>, <<"#false">>, <<"#null">>, <<"#0">>})
  => layout = FrontMatterLayout

\* the folder has an entry naming another layout than the front matter does
C6_Witness ==
  /\ Called
  /\ FrontMatterLayout = Sc(<<"ghost">>)
  /\ Folder(file) \in DOMAIN pageLayouts
  /\ pageLayouts[Folder(file)] = <<"post">>
  /\ layout = Sc(<<"ghost">>)

\* C7: without a front-matter layout the resolved layout is the folder's
\* entry of pageLayouts when there is one, and "default" otherwise.
C7_FolderThenDefault ==
  (Called /\ FrontMatterLayout = Undefined) =>
    layout = IF Folder(file) \in DOMAIN pageLayouts
               THEN Sc(pageLayouts[Folder(file)])
               ELSE Sc(<<"default">>)

C7_Witness ==
  /\ Called
  /\ FrontMatterLayout = Undefined
  /\ Folder(file) = AboutFolder
  /\ AboutFolder \in DOMAIN pageLayouts
  /\ layout = Sc(<<"post">>)

-----------------------------------------------------------------------------
(* Data composition, checked under SpecData *)

\* the base filename without extension of the two documents' paths
ExpectedPage(f) == IF f.path = IndexPath THEN <<"index">> ELSE <<"team">>

\* C8: the context of the primary render has page, layout and root equal to
\* the computed constants, whatever the data layers define under those keys.
C8_ConstantsWin ==
  \A i \in DOMAIN invocations :
    invocations[i].tier = "primary" =>
      /\ Get(invocations[i].ctx, "page") = Sc(ExpectedPage(file))
      /\ Get(invocations[i].ctx, "layout") = layout
      /\ Get(invocations[i].ctx, "root") = Sc(processRoot(file.path, Root))

\* global data and front matter both define page and root, one as a mapping
C8_Witness ==
  /\ Called
  /\ invocations # <<>>
  /\ invocations[1].tier = "primary"
  /\ IsMapping(Get(file.attributes, "page"))
  /\ IsMapping(Get(data, "root"))
  /\ Get(file.attributes, "root") # Undefined

\* the layers in the order they are merged
Layers ==
  <<data>> \o (IF file.data = Undefined THEN <<>> ELSE <<file.data>>)
           \o <<file.attributes>>

ConstantKeys == {"page", "layout", "root"}

LayerKeys == UNION {Keys(Layers[i]) : i \in DOMAIN Layers} \ ConstantKeys

Holders(k) == {i \in DOMAIN Layers : Get(Layers[i], k) # Undefined}

Greatest(S) == CHOOSE x \in S : \A y \in S : y <= x

IsPrefix(q, p) == Len(q) <= Len(p) /\ SubSeq(p, 1, Len(q)) = q

\* the mapping m redefines the node nd of an earlier mapping
Redefines(m, nd) ==
  \E x \in m :
    /\ x.p # <<>>
    /\ IsPrefix(x.p, nd.p)
    /\ x.v # MAP \/ (x.p = nd.p /\ nd.v # MAP)

\* the key-by-key merge of a sequence of mappings, node by node: a node stays
\* unless a later mapping redefines it or one of the keys above it
Merged(ms) ==
  {nd \in UNION {ms[i] : i \in DOMAIN ms} :
     \E i \in DOMAIN ms :
       nd \in ms[i] /\ \A j \in (i + 1)..Len(ms) : ~Redefines(ms[j], nd)}

RECURSIVE Pick(_, _, _)
Pick(k, idx, from) ==
  IF from > Len(Layers) THEN <<>>
  ELSE IF from \in idx THEN <<Get(Layers[from], k)>> \o Pick(k, idx, from + 1)
  ELSE Pick(k, idx, from + 1)

MappingHolders(k) == {i \in Holders(k) : IsMapping(Get(Layers[i], k))}

ScalarHolders(k) == Holders(k) \ MappingHolders(k)

\* the holders of k that come after the last layer holding a scalar there
RecentHolders(k) ==
  {i \in Holders(k) : \A j \in ScalarHolders(k) : j < i}

ScalarClause(k) ==
  ~IsMapping(Get(Layers[Greatest(Holders(k))], k)) =>
    Get(pageData, k) = Get(Layers[Greatest(Holders(k))], k)

\* C9 as claimed: the latest scalar wins, and when two or more layers hold
\* mappings at a key the context holds the merge of those mappings.
C9_MergeOfAllMappings ==
  (Called /\ pageData # Undefined) =>
    \A k \in LayerKeys :
      /\ ScalarClause(k)
      /\ (/\ IsMapping(Get(Layers[Greatest(Holders(k))], k))
          /\ Cardinality(MappingHolders(k)) >= 2)
         => Get(pageData, k) = Merged(Pick(k, MappingHolders(k), 1))

ComposedRight ==
  (Called /\ pageData # Undefined) =>
    \A k \in LayerKeys :
      /\ ScalarClause(k)
      /\ IsMapping(Get(Layers[Greatest(Holders(k))], k))
         => Get(pageData, k) = Merged(Pick(k, RecentHolders(k), 1))

\* C9 as amended: the latest scalar wins; when the latest value is a mapping
\* the context holds the merge of the mappings of the layers that come after
\* the last layer holding a scalar at that key (of all the layers that define
\* it when none holds a scalar).  Global data is not modified.
C9_MergeSinceLastScalar == [] ComposedRight /\ [][data' = data]_vars

\* global data and front matter hold mappings at k and the context holds both
C9_Witness ==
  /\ Called
  /\ Get(data, "k") = One("x", Sc(<<"1">>))
  /\ Get(file.attributes, "k") = One("y", Sc(<<"2">>))
  /\ file.data = Undefined
  /\ Get(pageData, "k") = Mk({<<"x", Sc(<<"1">>)>>, <<"y", Sc(<<"2">>)>>})

-----------------------------------------------------------------------------
(* Inline layout- partials across documents, checked under Spec *)

DeclaredIn(body, name) ==
  \E j \in DOMAIN body : body[j].k = "open" /\ body[j].name = name

\* C10: whenever a layout is invoked for a document, every layout- entry of
\* the registry was registered from an inline declaration of that document's
\* own body; none registered for an earlier document is visible.
C10_OnlyOwnInlinePartials ==
  \A i \in DOMAIN invocations :
    \A nm \in DOMAIN invocations[i].partials :
      IsLayoutPartial(nm) =>
        /\ invocations[i].partials[nm].kind = "inline"
        /\ invocations[i].partials[nm].doc = n
        /\ DeclaredIn(file.body, nm)

\* the first document registered a layout- partial the second does not declare
C10_Witness ==
  /\ n = 2
  /\ invocations # <<>>
  /\ \E nm \in DOMAIN entry :
       /\ IsLayoutPartial(nm)
       /\ entry[nm].doc = 1
       /\ ~DeclaredIn(file.body, nm)
       /\ nm \notin DOMAIN invocations[1].partials

-----------------------------------------------------------------------------
(* The extractor over many page bodies: the document is drawn at Init from  *)
(* bodies assembled out of at most MaxSegs segments, and rendered once.     *)

\* {{#*inline "name"}}n{{/inline}} with the given trim markers and quotes
Decl(lead, ql, qr, name, clead, ctrail) ==
  <<Open(lead, ql, qr, name), Text("n"), Close(clead, ctrail)>>

\* {{!-- ... --}}
Comment(s) == <<COpen>> \o s \o <<CClose>>

PlainNav == Decl(FALSE, "\"", "\"", NavName, FALSE, FALSE)

Segments ==
  { <<Text("p")>>,
    <<Ws>>,
    PlainNav,
    Decl(FALSE, "'", "'", SideName, FALSE, FALSE),
    Decl(TRUE, "\"", "\"", NavName, FALSE, FALSE),
    Decl(TRUE, "'", "'", SideName, FALSE, TRUE),
    Decl(FALSE, "'", "'", NavName, FALSE, TRUE),
    Decl(FALSE, "\"", "\"", SideName, TRUE, FALSE),
    Decl(TRUE, "'", "'", NavName, TRUE, FALSE),
    Decl(FALSE, "\"", "'", NavName, FALSE, FALSE),
    Decl(FALSE, "'", "\"", SideName, FALSE, FALSE),
    Decl(FALSE, "\"", "\"", <<"nav">>, FALSE, FALSE),
    Comment(PlainNav),
    Comment(<<Text("c")>>),
    <<Open(FALSE, "\"", "\"", SideName)>> \o Comment(<<Text("c")>>)
      \o <<Close(FALSE, FALSE)>> }

RECURSIVE Flatten(_)
Flatten(q) == IF q = <<>> THEN <<>> ELSE Head(q) \o Flatten(Tail(q))

Bodies == {Flatten(q) : q \in UNION {[1..m -> Segments] : m \in 0..MaxSegs}}

BodyFiles ==
  [path : {IndexPath},
   attributes : {EmptyObj},
   data : {Undefined},
   body : Bodies,
   failAt : {"none"}]

InitExtract ==
  /\ InitCall
  /\ data = SiteData
  /\ layouts = LayoutsWithDefault
  /\ pageLayouts = NoPageLayouts
  /\ file \in BodyFiles

NextExtract == RenderPending

SpecExtract == InitExtract /\ [][NextExtract]_vars

-----------------------------------------------------------------------------
(* Extraction of inline declarations, checked under SpecExtract *)

\* the positions of s that lie inside a {{!-- --}} comment
RECURSIVE CommentedFrom(_, _)
CommentedFrom(s, i) ==
  IF i > Len(s) THEN {}
  ELSE LET ends == {j \in (i + 1)..Len(s) : s[j].k = "cclose"}
       IN  IF s[i].k = "copen" /\ ends # {}
             THEN (i..Least(ends)) \cup CommentedFrom(s, Least(ends) + 1)
             ELSE CommentedFrom(s, i + 1)

InComment(s) == CommentedFrom(s, 1)

\* the declarations of s written {{#*inline "layout-<name>"}}text{{/inline}},
\* as pairs <<position of the opening tag, position of the closing tag>>
PlainDecls(s) ==
  {d \in (1..Len(s)) \X (1..Len(s)) :
     /\ d[1] < d[2]
     /\ s[d[1]].k = "open" /\ ~s[d[1]].lead
     /\ s[d[1]].ql = "\"" /\ s[d[1]].qr = "\""
     /\ IsLayoutPartial(s[d[1]].name)
     /\ s[d[2]].k = "close" /\ ~s[d[2]].lead /\ ~s[d[2]].trail
     /\ \A k \in (d[1] + 1)..(d[2] - 1) : s[k].k = "text"}

\* every inline opening tag of s starts a declaration of that form
OnlyPlainDecls(s) ==
  \A i \in 1..Len(s) : s[i].k = "open" => \E d \in PlainDecls(s) : d[1] = i

DeclText(s, d) == SubSeq(s, d[1], d[2])

\* how many declarations with the text txt s holds inside / outside comments
CommentedCount(s, txt) ==
  Cardinality({d \in PlainDecls(s) : d[1] \in InComment(s) /\ DeclText(s, d) = txt})

LiveCount(s, txt) ==
  Cardinality({d \in PlainDecls(s) : d[1] \notin InComment(s) /\ DeclText(s, d) = txt})

\* the call registered name from the document it processed
Registered(name) ==
  /\ name \in DOMAIN partials
  /\ partials[name].kind = "inline"
  /\ partials[name].doc = n

\* C11: in a body whose declarations all have the plain form, a declaration
\* inside a comment is not registered (unless the same name is also declared
\* outside a comment) and its text stays in the body, and a declaration
\* outside any comment is registered under its name and removed from the body.
C11_CommentedKeptLiveExtracted ==
  (Called /\ OnlyPlainDecls(file.body)) =>
    \A d \in PlainDecls(file.body) :
      LET txt == DeclText(file.body, d)
          name == file.body[d[1]].name
      IN  /\ d[1] \in InComment(file.body) =>
                /\ Registered(name) =>
                     \E e \in PlainDecls(file.body) :
                       /\ e[1] \notin InComment(file.body)
                       /\ file.body[e[1]].name = name
                /\ CommentedCount(pageBody, txt) = CommentedCount(file.body, txt)
          /\ d[1] \notin InComment(file.body) =>
                /\ Registered(name)
                /\ LiveCount(pageBody, txt) = 0

\* the declarations of s of any spelling: an opening tag naming a layout-
\* partial, text, a closing tag
Decls(s) ==
  {d \in (1..Len(s)) \X (1..Len(s)) :
     /\ d[1] < d[2]
     /\ s[d[1]].k = "open" /\ IsLayoutPartial(s[d[1]].name)
     /\ s[d[2]].k = "close"
     /\ \A k \in (d[1] + 1)..(d[2] - 1) : s[k].k = "text"}

DeclCount(s, txt) == Cardinality({d \in Decls(s) : DeclText(s, d) = txt})

\* no opening tag with matching quotes is left without a closing tag
\* {{/inline}} or {{/inline~}} of its own
Terminated(s) ==
  \A i \in 1..Len(s) :
    (s[i].k = "open" /\ s[i].ql = s[i].qr /\ IsLayoutPartial(s[i].name)
       /\ i \notin InComment(s)) =>
      \E j \in (i + 1)..Len(s) :
        /\ s[j].k = "close" /\ ~s[j].lead
        /\ \A k \in (i + 1)..(j - 1) : s[k].k \in {"text", "copen", "cclose"}

Nth(S, k) == CHOOSE x \in S : Cardinality({y \in S : y <= x}) = k

\* the subsequence of s at the positions in keep
Select(s, keep) == [k \in 1..Cardinality(keep) |-> s[Nth(keep, k)]]

\* the positions of the comment-stripped text st covered by the matches of
\* a left-to-right scan that starts at position from
RECURSIVE MatchedFrom(_, _)
MatchedFrom(st, from) ==
  LET m == Exec(st, from)
  IN  IF ~m.found THEN {}
      ELSE (m.start..m.stop) \cup MatchedFrom(st, m.stop + 1)

\* s without the spans matched in its comment-stripped text
WithoutMatches(s) ==
  LET live == (1..Len(s)) \ InComment(s)
      gone == {Nth(live, k) : k \in MatchedFrom(StripComments(s), 1)}
  IN  Select(s, (1..Len(s)) \ gone)

\* C14: the body handed to compilation is the original body without the
\* spans (trailing whitespace included) of the declarations registered from
\* the comment-stripped text: every such span is gone, and nothing else is.
C14_ExactlyMatchedSpansRemoved ==
  Called => pageBody = WithoutMatches(file.body)

NoComments(s) == \A i \in 1..Len(s) : s[i].k \notin {"copen", "cclose"}

\* every inline opening tag of s starts a declaration with pairing quotes
AllOpensDeclared(s) ==
  \A i \in 1..Len(s) :
    s[i].k = "open" =>
      \E d \in Decls(s) : d[1] = i /\ s[i].ql = s[i].qr

Extracted(d) ==
  /\ Registered(file.body[d[1]].name)
  /\ DeclCount(pageBody, DeclText(file.body, d)) = 0

-----------------------------------------------------------------------------
(* The registry across documents, checked under Spec *)

\* the layout- entries of the registry that an earlier call registered
Stale(parts) ==
  {nm \in DOMAIN parts :
     IsLayoutPartial(nm) /\ parts[nm].kind = "inline" /\ parts[nm].doc < n}

HelpersOf(f) ==
  [ifpage |-> Sc(ExpectedPage(f)), unlesspage |-> Sc(ExpectedPage(f))]

\* C16 as claimed: at every invocation of a layout, primary or Tier 1, the
\* registered ifpage and unlesspage are bound to the page name of the
\* document being processed.
C16_HelpersAlwaysOwn ==
  \A i \in DOMAIN invocations : invocations[i].helpers = HelpersOf(file)

\* C16: at the primary invocation, and at a Tier 1 invocation that follows a
\* failure after the page data was composed, ifpage and unlesspage are bound
\* to the page name of the document being processed; at a Tier 1 invocation
\* that follows an earlier failure they are whatever the call found
\* registered.
C16_HelpersOwnOnceRegistered ==
  [][\A i \in DOMAIN invocations' :
       IF pageData' # Undefined
         THEN invocations'[i].helpers = HelpersOf(file')
         ELSE /\ invocations'[i].tier = "tier1"
              /\ invocations'[i].helpers = helpers]_vars

\* the second document failed before its helpers were registered and its
\* layout was re-invoked with the helpers of the first document
C16_Witness ==
  /\ n = 2
  /\ pageData = Undefined
  /\ \E i \in DOMAIN invocations :
       /\ invocations[i].tier = "tier1"
       /\ invocations[i].helpers.ifpage # Undefined
       /\ invocations[i].helpers # HelpersOf(file)

\* C17: at every invocation of a layout the registry entry `body` is the
\* page template compiled from the document being processed (primary render)
\* or the error fragment (Tier 1), never the entry an earlier call left.
C17_BodyIsOwnOrErrorFragment ==
  \A i \in DOMAIN invocations :
    /\ BodyName \in DOMAIN invocations[i].partials
    /\ invocations[i].tier = "primary" =>
         /\ invocations[i].partials[BodyName].kind = "page"
         /\ invocations[i].partials[BodyName].doc = n
    /\ invocations[i].tier = "tier1" =>
         invocations[i].partials[BodyName] = ErrorFragment

\* the second document found the first document's page registered as `body`,
\* failed before registering its own, and its layout was re-invoked with the
\* error fragment
C17_Witness ==
  /\ n = 2
  /\ BodyName \in DOMAIN entry
  /\ entry[BodyName].kind = "page"
  /\ entry[BodyName].doc = 1
  /\ Len(invocations) = 1
  /\ invocations[1].tier = "tier1"
  /\ invocations[1].partials[BodyName] = ErrorFragment

\* C18: a call leaves every registry entry whose name is neither `body` nor
\* starts with layout- as it found it, and the only names it adds are `body`
\* and names starting with layout-.
C18_OtherEntriesUntouched ==
  Called =>
    /\ \A nm \in DOMAIN entry :
         (~IsLayoutPartial(nm) /\ nm # BodyName) =>
           /\ nm \in DOMAIN partials
           /\ partials[nm] = entry[nm]
    /\ \A nm \in DOMAIN partials \ DOMAIN entry :
         IsLayoutPartial(nm) \/ nm = BodyName

\* a call deleted the globally loaded layout-legacy, registered layout-nav
\* and `body`, and left the globally loaded header as it was
C18_Witness ==
  /\ Called
  /\ <<"layout-", "legacy">> \in DOMAIN entry
  /\ <<"layout-", "legacy">> \notin DOMAIN partials
  /\ NavName \in DOMAIN partials
  /\ BodyName \in DOMAIN partials
  /\ partials[<<"header">>] = entry[<<"header">>]

====
